---- MODULE Spec2Model ----
(***************************************************************************)
(* A model of the Adapter class of src/src/adapters/adapter.ts: target     *)
(* discovery and descriptor rewriting, the binding table of Target         *)
(* sessions, message forwarding and the lifecycle of the helper process.   *)
(*                                                                         *)
(* JavaScript values are modelled as tuples of strings, so that any two    *)
(* values are comparable: a JS string is the tuple of its characters, and  *)
(* the non-string values undefined, null and NaN are one-element tuples    *)
(* whose element is no single character.                                   *)
(***************************************************************************)
EXTENDS Integers, Sequences, FiniteSets, TLC

\* ------------------------------------------------------------------ bounds

\* The number of helper processes spawned in one run.
MaxProcs == 2
\* The number of getTargets calls in flight at once.
MaxCalls == 1

\* ------------------------------------------------------------- JS values

Undefined == <<"undefined">>
Null == <<"null">>
NaNValue == <<"NaN">>

\* The string a template literal `${v}` yields for v.
ToStr(v) ==
    IF v = Undefined THEN <<"u", "n", "d", "e", "f", "i", "n", "e", "d">>
    ELSE IF v = Null THEN <<"n", "u", "l", "l">>
    ELSE IF v = NaNValue THEN <<"N", "a", "N">>
    ELSE v

\* JS truthiness: undefined, null, NaN and the empty string are falsy.
Truthy(v) == v \notin {Undefined, Null, NaNValue, <<>>}

\* a || b
OrElse(a, b) == IF Truthy(a) THEN a ELSE b

\* s.indexOf(ch, from): the 0-based index of the first ch at or after from, or -1.
IndexOf(s, ch, from) ==
    LET hits == {i \in 0..(Len(s) - 1) : i >= from /\ s[i + 1] = ch}
    IN  IF hits = {} THEN -1 ELSE CHOOSE i \in hits : \A j \in hits : i <= j

\* s.substr(start, length)
Substr(s, start, length) ==
    LET last == IF start + length > Len(s) THEN Len(s) ELSE start + length
    IN  IF length <= 0 \/ start >= Len(s) THEN <<>> ELSE SubSeq(s, start + 1, last)

\* The 0-based index of the first occurrence of the string pat in s, or -1.
IndexOfStr(s, pat) ==
    LET hits == {i \in 0..(Len(s) - Len(pat)) : SubSeq(s, i + 1, i + Len(pat)) = pat}
    IN  IF hits = {} THEN -1 ELSE CHOOSE i \in hits : \A j \in hits : i <= j

\* s.replace(pat, rep) with a string pattern: the first occurrence only.
Replace(s, pat, rep) ==
    LET i == IndexOfStr(s, pat)
    IN  IF i < 0 THEN s
        ELSE SubSeq(s, 1, i) \o rep \o SubSeq(s, i + Len(pat) + 1, Len(s))

\* JSON.parse(JSON.stringify(v)) of a value: NaN is written as null, and
\* undefined is not written at all (the key is dropped, and reads back as
\* undefined).
JsonValue(v) == IF v = NaNValue THEN Null ELSE v

\* JSON.parse(JSON.stringify(t)) of a descriptor, field by field.
JsonClone(t) == [f \in DOMAIN t |-> JsonValue(t[f])]


\* ------------------------------------------------------------ JS Map

Has(m, k) == k \in DOMAIN m
Get(m, k) == m[k]
Set(m, k, v) == [x \in (DOMAIN m) \cup {k} |-> IF x = k THEN v ELSE m[x]]
EmptyMap == [x \in {} |-> Undefined]

\* ---------------------------------------------------------- environment

\* The relay's public address, the constructor's `socket` argument.
ProxyUrl == <<"w", "s", ":", "/", "/", "r">>
\* The adapter ids the constructor is given.
AdapterIds ==
    {<<"/", "b", "/", "i">>, <<"/", "h">>, <<"/", "b", "c", "/", "i", "/", "j">>}
\* The fixed viewer template that precedes the relayed address.
ViewerPrefix == <<"V", "?", "w", "s", "=">>

\* The configurations of the helper process: none, a path without
\* arguments, a path with arguments.
OptionSets ==
    { [proxyExePath |-> Undefined, proxyExeArgs |-> Undefined],
      [proxyExePath |-> <<"p">>, proxyExeArgs |-> Undefined],
      [proxyExePath |-> <<"p">>, proxyExeArgs |-> <<"-", "x">>] }

\* Target ids clients ask for: two the runtime lists, one it never lists.
IdA == <<"a">>
IdB == <<"b">>
Ghost == <<"g">>
TargetIds == {IdA, IdB, Ghost}

\* Client connections (the wsFrom argument).
Clients == {<<"c", "1">>, <<"c", "2">>}
\* Opaque protocol messages.
Messages == {<<"m", "1">>, <<"m", "2">>}
\* The metadata a caller passes to getTargets: none, a string, and a value
\* JSON cannot represent.
Metadatas == {Undefined, <<"d">>, NaNValue}

\* A raw descriptor as JSON.parse yields it (an absent key reads undefined).
RawDesc(id, appId, type, url) ==
    [ id |-> id, appId |-> appId, type |-> type, adapterType |-> Undefined,
      metadata |-> Undefined, webSocketDebuggerUrl |-> url,
      devtoolsFrontendUrl |-> Undefined ]

\* The descriptors the fronted runtime lists: target a at one of two
\* endpoints (the second with its own type), target b, which has only the
\* alternate identity field, and a descriptor with no identity field.
DescA1 == RawDesc(IdA, Undefined, Undefined, <<"x", "1">>)
DescA2 == RawDesc(IdA, Undefined, <<"w">>, <<"x", "2">>)
DescB == RawDesc(Undefined, IdB, Undefined, <<"x", "1">>)
DescNoId == RawDesc(Undefined, Undefined, Undefined, <<"x", "3">>)

\* The parsed bodies of discovery responses: the listings of target a
\* alone, and the listings with several targets, a target listed twice and
\* a descriptor without identity.
BodiesOfA == { <<>>, <<DescA1>>, <<DescA2>> }
Bodies ==
    BodiesOfA \cup { <<DescB>>, <<DescA1, DescB>>, <<DescA1, DescA2>>,
                     <<DescB, DescA2>>, <<DescNoId>> }

\* What the request callback is called with (error, response, body): a
\* transport error, or a response with a status whose body either parses to
\* a sequence of raw descriptors or is rejected by JSON.parse (an HTML error
\* page, say).
ResponsesWith(bodies) ==
    { [error |-> TRUE, statusCode |-> 0, json |-> FALSE, body |-> <<>>] }
    \cup { [error |-> FALSE, statusCode |-> st, json |-> FALSE, body |-> <<>>] :
             st \in {200, 500} }
    \cup { [error |-> FALSE, statusCode |-> st, json |-> TRUE, body |-> b] :
             st \in {200, 500}, b \in bodies }

\* ------------------------------------------------------------------ state

VARIABLES
    _id,          \* Adapter._id
    _adapterType, \* Adapter._adapterType
    _options,     \* Adapter._options (the helper process part)
    _proxyProc,   \* Adapter._proxyProc: the tracked process, 0 for null
    _targetMap,   \* Adapter._targetMap: target id -> Target (an index of heap)
    _targetIdToTargetDataMap, \* target id -> the real endpoint record
    heap,         \* the Target objects created so far, in creation order
    spawned,      \* the number of processes spawn() has started: 1..spawned
    signalled,    \* the processes kill('SIGTERM') was called on
    errored,      \* the processes that have emitted 'error'
    calls,        \* the getTargets calls in flight, in issue order: the metadata
                  \* of each, and the ids a call issued after it has stored
    last          \* the last operation: its name, argument, result and output

vars == << _id, _adapterType, _options, _proxyProc, _targetMap,
           _targetIdToTargetDataMap, heap, spawned, signalled, errored,
           calls, last >>

config == << _id, _adapterType, _options >>
procVars == << _proxyProc, spawned, signalled, errored >>
targetVars == << _targetMap, _targetIdToTargetDataMap, heap >>

\* ------------------------------------------------------------ constructor

\* The adapter type the constructor derives from the adapter id.
\* A derivation that takes the second branch for every id.
AdapterTypeWholeId(id) == Replace(id, <<"/">>, <<"_">>)

AdapterType(id) ==
    LET index == IndexOf(id, "/", 1)
    IN  IF index >= 0 THEN <<"_">> \o Substr(id, 1, index - 1)
        ELSE Replace(id, <<"/">>, <<"_">>)

\* ----------------------------------------------------------- setTargetInfo

\* The descriptor after its id, adapterType, type and metadata are set and
\* before its URLs are overwritten.
PreRewrite(t, metadata) ==
    [t EXCEPT !.id = OrElse(t.id, t.appId),
              !.adapterType = _adapterType,
              !.type = OrElse(t.type, <<"p", "a", "g", "e">>),
              !.metadata = metadata]

\* `${this._proxyUrl}${this._id}/${t.id}`
ProxiedUrl(tid) == ProxyUrl \o _id \o <<"/">> \o ToStr(tid)

\* The record taken after webSocketDebuggerUrl is overwritten.
TargetDataAfterRewrite(t, metadata) ==
    JsonClone([PreRewrite(t, metadata) EXCEPT
                  !.webSocketDebuggerUrl = ProxiedUrl(OrElse(t.id, t.appId))])

\* The real endpoint record setTargetInfo stores for t.
TargetDataOf(t, metadata) == JsonClone(PreRewrite(t, metadata))

\* The descriptor setTargetInfo returns: the URLs point at the relay.
Rewritten(t, metadata) ==
    LET n == PreRewrite(t, metadata)
        wsUrl == Replace(ProxyUrl, <<"w", "s", ":", "/", "/">>, <<>>)
                     \o _id \o <<"/">> \o ToStr(n.id)
    IN  [n EXCEPT !.webSocketDebuggerUrl = ProxiedUrl(n.id),
                  !.devtoolsFrontendUrl = ViewerPrefix \o wsUrl]

\* setTargetInfo(t, metadata) on the record table `data`: the table after
\* the call and the descriptor returned.
setTargetInfo(data, t, metadata) ==
    [ data |-> Set(data, PreRewrite(t, metadata).id, TargetDataOf(t, metadata)),
      ret  |-> Rewritten(t, metadata) ]

\* rawTargets.forEach(t => targets.push(this.setTargetInfo(t, metadata))):
\* the record table and the targets after the descriptors from index i on.
RECURSIVE ForEachTarget(_, _, _, _, _)
ForEachTarget(rawTargets, i, metadata, data, targets) ==
    IF i > Len(rawTargets) THEN [data |-> data, targets |-> targets]
    ELSE LET r == setTargetInfo(data, rawTargets[i], metadata)
         IN  ForEachTarget(rawTargets, i + 1, metadata, r.data,
                           Append(targets, r.ret))

\* The request callback without the test of `error`.
RequestCallbackIgnoresError(resp, metadata, data) ==
    IF ~resp.json
    THEN [outcome |-> "threw", targets |-> <<>>, data |-> data]
    ELSE LET r == ForEachTarget(resp.body, 1, metadata, data, <<>>)
         IN  [outcome |-> "resolved", targets |-> r.targets, data |-> r.data]

\* The request callback of getTargets, called with response resp for a call
\* made with `metadata`: how the promise ends ("resolved", or "threw" when
\* the callback throws and the promise is never settled), what it resolves
\* to, and the record table afterwards.
RequestCallback(resp, metadata, data) ==
    IF resp.error
    THEN [outcome |-> "resolved", targets |-> <<>>, data |-> data]
    ELSE IF ~resp.json
    THEN [outcome |-> "threw", targets |-> <<>>, data |-> data]
    ELSE LET r == ForEachTarget(resp.body, 1, metadata, data, <<>>)
         IN  [outcome |-> "resolved", targets |-> r.targets, data |-> r.data]

\* --------------------------------------------------- the helper process

\* The process part of the state, as one value.
\* `sent` lists the processes signalled in the operation under way.
ProcState ==
    [ proxyProc |-> _proxyProc, spawned |-> spawned,
      signalled |-> signalled, errored |-> errored, sent |-> <<>> ]

\* process.kill('SIGTERM')
kill(P, process) ==
    [P EXCEPT !.signalled = @ \cup {process}, !.sent = Append(@, process)]

\* spawnProcess without the test of the tracked handle.
spawnProcessAlways(P) ==
    [P EXCEPT !.spawned = @ + 1, !.proxyProc = P.spawned + 1]

\* spawnProcess(path, args)
spawnProcess(P) ==
    IF P.proxyProc = 0
    THEN [P EXCEPT !.spawned = @ + 1, !.proxyProc = P.spawned + 1]
    ELSE P

\* stop() that signals the process and keeps the handle.
stopKeepsHandle(P) ==
    IF P.proxyProc # 0 THEN kill(P, P.proxyProc) ELSE P

\* stop() that forgets the process without signalling it.
stopWithoutKill(P) == [P EXCEPT !.proxyProc = 0]

\* stop()
stop(P) ==
    IF P.proxyProc # 0
    THEN [kill(P, P.proxyProc) EXCEPT !.proxyProc = 0]
    ELSE P

\* start()
start(P) ==
    IF Truthy(_options.proxyExePath) THEN spawnProcess(P) ELSE P

\* refereshProcess(process, path, args)
refereshProcess(P, process) == spawnProcess(kill(P, process))

\* forceRefresh()
forceRefresh(P) ==
    IF P.proxyProc # 0 /\ Truthy(_options.proxyExePath)
                       /\ Truthy(_options.proxyExeArgs)
    THEN refereshProcess(P, P.proxyProc)
    ELSE P

\* An 'error' listener that stops and starts the process again.
onProcessErrorRespawns(P, process) ==
    spawnProcess(stop([P EXCEPT !.errored = @ \cup {process}]))

\* The 'error' listener spawnProcess registers on the process it spawned.
onProcessError(P, process) ==
    stop([P EXCEPT !.errored = @ \cup {process}])

\* ------------------------------------------------------- Target sessions

\* new Target(targetId, targetData): no runtime connection and no client yet.
NewTarget(targetId, targetData) ==
    [ id |-> targetId, data |-> targetData, url |-> Undefined,
      client |-> Undefined, opened |-> 0, listeners |-> 0, closed |-> FALSE,
      rebound |-> FALSE ]

\* target.connectTo(url, wsFrom): opens the runtime-side connection to url
\* and binds the client.
TargetConnectTo(t, url, wsFrom) ==
    [t EXCEPT !.url = url, !.client = wsFrom, !.opened = @ + 1]

\* target.updateClient(wsFrom): replaces the client (rebound records that
\* it was called).
TargetUpdateClient(t, wsFrom) == [t EXCEPT !.client = wsFrom, !.rebound = TRUE]

\* target.on('socketClosed', listener)
TargetOn(t) == [t EXCEPT !.listeners = @ + 1]

\* ------------------------------------------------- connectTo / forwardTo

\* The binding part of the state, as one value.
BindState ==
    [ targetMap |-> _targetMap, data |-> _targetIdToTargetDataMap,
      heap |-> heap, ret |-> 0 ]

\* The reuse of a Target that leaves its client as it was.
connectToExistingKeepsClient(B, targetId, wsFrom) ==
    [B EXCEPT !.ret = Get(B.targetMap, targetId)]

\* The reuse of a Target that subscribes to its 'socketClosed' again.
connectToExistingResubscribes(B, targetId, wsFrom) ==
    LET target == Get(B.targetMap, targetId)
    IN  [B EXCEPT !.heap[target] = TargetOn(TargetUpdateClient(@, wsFrom)),
                  !.ret = target]

\* connectTo, when a Target already exists for targetId.
connectToExisting(B, targetId, wsFrom) ==
    LET target == Get(B.targetMap, targetId)
    IN  [B EXCEPT !.heap[target] = TargetUpdateClient(@, wsFrom),
                  !.ret = target]

\* connectTo, when a record exists and no Target does.
connectToNew(B, targetId, wsFrom) ==
    LET targetData == Get(B.data, targetId)
        target == Len(B.heap) + 1
        created == TargetOn(TargetConnectTo(NewTarget(targetId, targetData),
                                targetData.webSocketDebuggerUrl, wsFrom))
    IN  [B EXCEPT !.heap = Append(@, created),
                  !.targetMap = Set(@, targetId, target),
                  !.ret = target]

\* connectTo that binds a Target to an id with no record, seeded with nothing.
connectToBindsUnknown(B, targetId, wsFrom) ==
    IF Has(B.targetMap, targetId) THEN connectToExisting(B, targetId, wsFrom)
    ELSE LET target == Len(B.heap) + 1
             created == TargetOn(TargetConnectTo(NewTarget(targetId, Undefined),
                                     Undefined, wsFrom))
         IN  [B EXCEPT !.heap = Append(@, created),
                       !.targetMap = Set(@, targetId, target),
                       !.ret = target]

\* connectTo without the lookup of an existing Target.
connectToAlwaysNew(B, targetId, wsFrom) ==
    IF ~Has(B.data, targetId) THEN [B EXCEPT !.ret = 0]
    ELSE connectToNew(B, targetId, wsFrom)

\* connectTo(targetId, wsFrom): ret is the Target returned, 0 for null.
connectTo(B, targetId, wsFrom) ==
    IF ~Has(B.data, targetId) THEN [B EXCEPT !.ret = 0]
    ELSE IF Has(B.targetMap, targetId) THEN connectToExisting(B, targetId, wsFrom)
    ELSE connectToNew(B, targetId, wsFrom)

\* forwardTo that hands the message to every Target.
forwardToAll(B, targetId, message) ==
    IF ~Has(B.targetMap, targetId) THEN <<>>
    ELSE [t \in 1..Len(B.heap) |-> [target |-> t, message |-> message]]

\* forwardTo(targetId, message): the (Target, message) pairs forward() is
\* called with.
forwardTo(B, targetId, message) ==
    IF ~Has(B.targetMap, targetId) THEN <<>>
    ELSE << [target |-> Get(B.targetMap, targetId), message |-> message] >>

\* The 'socketClosed' events the Adapter emits when Target t emits
\* 'socketClosed' with its id: one for each listener connectTo registered.
onSocketClosed(t) == [k \in 1..t.listeners |-> t.id]

\* ----------------------------------------------------------------- actions

NoResponse == [error |-> FALSE, statusCode |-> 0, json |-> FALSE, body |-> <<>>]

\* The record of an operation: its name, target id, other argument, result
\* and output, the response it handled, and what held when it began (the
\* tracked process, the ids with a Target, the ids with a record); for a
\* request callback, `stale` is the set of ids that calls issued after the
\* answered one had stored before it.
Did(op, id, arg, ret, out, resp) ==
    [ op |-> op, id |-> id, arg |-> arg, ret |-> ret, out |-> out, resp |-> resp,
      stale |-> {},
      pre |-> [ proxyProc |-> _proxyProc, bound |-> DOMAIN _targetMap,
                known |-> DOMAIN _targetIdToTargetDataMap ] ]

SetProc(P) ==
    /\ _proxyProc' = P.proxyProc
    /\ spawned' = P.spawned
    /\ signalled' = P.signalled
    /\ errored' = P.errored

\* The state after new Adapter(id, ProxyUrl, options).
InitWith(id) ==
    /\ _id = id
    /\ _adapterType = AdapterType(_id)
    /\ _options \in OptionSets
    /\ _proxyProc = 0
    /\ _targetMap = EmptyMap
    /\ _targetIdToTargetDataMap = EmptyMap
    /\ heap = <<>>
    /\ spawned = 0
    /\ signalled = {}
    /\ errored = {}
    /\ calls = <<>>
    /\ last = Did("new", Undefined, Undefined, 0, <<>>, NoResponse)

Init == InitWith(<<"/", "b", "/", "i">>)

\* An Adapter constructed with any of the ids.
InitAny == \E id \in AdapterIds : InitWith(id)

Start ==
    /\ start(ProcState).spawned <= MaxProcs
    /\ SetProc(start(ProcState))
    /\ last' = Did("start", Undefined, Undefined, 0, start(ProcState).sent,
                   NoResponse)
    /\ UNCHANGED << config, targetVars, calls >>

\* A stop() that also drops the calls in flight.
StopCancelsCalls ==
    /\ SetProc(stop(ProcState))
    /\ last' = Did("stop", Undefined, Undefined, 0, stop(ProcState).sent,
                   NoResponse)
    /\ calls' = <<>>
    /\ UNCHANGED << config, targetVars >>

Stop ==
    /\ SetProc(stop(ProcState))
    /\ last' = Did("stop", Undefined, Undefined, 0, stop(ProcState).sent,
                   NoResponse)
    /\ UNCHANGED << config, targetVars, calls >>

ForceRefresh ==
    /\ forceRefresh(ProcState).spawned <= MaxProcs
    /\ SetProc(forceRefresh(ProcState))
    /\ last' = Did("forceRefresh", Undefined, Undefined, 0,
                   forceRefresh(ProcState).sent, NoResponse)
    /\ UNCHANGED << config, targetVars, calls >>

\* Process `process` emits 'error'.
ProcessError(process) ==
    /\ process \in 1..spawned
    /\ SetProc(onProcessError(ProcState, process))
    /\ last' = Did("processError", Undefined, Undefined, process,
                   onProcessError(ProcState, process).sent, NoResponse)
    /\ UNCHANGED << config, targetVars, calls >>

\* getTargets(metadata) up to the return of the promise: the request is
\* sent, while fewer than `limit` calls are in flight.
GetTargetsWithin(limit, metadata) ==
    /\ Len(calls) < limit
    /\ calls' = Append(calls, [metadata |-> metadata, stale |-> {}])
    /\ last' = Did("getTargets", Undefined, metadata, 0, <<>>, NoResponse)
    /\ UNCHANGED << config, procVars, targetVars >>

GetTargets(metadata) == GetTargetsWithin(MaxCalls, metadata)

\* The request callback of the i-th call in flight runs with response resp.
Response(i, resp) ==
    /\ i \in 1..Len(calls)
    /\ LET r == RequestCallback(resp, calls[i].metadata, _targetIdToTargetDataMap)
           stored == {r.targets[k].id : k \in 1..Len(r.targets)}
       IN  /\ _targetIdToTargetDataMap' = r.data
           /\ last' = [Did(r.outcome, Undefined, calls[i].metadata, 0, r.targets,
                           resp) EXCEPT !.stale = calls[i].stale]
           /\ calls' = [k \in 1..(Len(calls) - 1) |->
                         IF k < i
                         THEN [calls[k] EXCEPT !.stale = @ \cup stored]
                         ELSE calls[k + 1]]
    /\ UNCHANGED << config, procVars, _targetMap, heap >>

ConnectTo(targetId, wsFrom) ==
    /\ LET B == connectTo(BindState, targetId, wsFrom)
       IN  /\ _targetMap' = B.targetMap
           /\ _targetIdToTargetDataMap' = B.data
           /\ heap' = B.heap
           /\ last' = Did("connectTo", targetId, wsFrom, B.ret, <<>>, NoResponse)
    /\ UNCHANGED << config, procVars, calls >>

ForwardTo(targetId, message) ==
    /\ last' = Did("forwardTo", targetId, message, 0,
                   forwardTo(BindState, targetId, message), NoResponse)
    /\ UNCHANGED << config, procVars, targetVars, calls >>

\* A 'socketClosed' handler that also drops the Target from the binding
\* table.
SocketClosedUnbinds(t) ==
    /\ t \in 1..Len(heap)
    /\ heap' = [heap EXCEPT ![t].closed = TRUE]
    /\ _targetMap' = [x \in (DOMAIN _targetMap) \ {heap[t].id} |-> _targetMap[x]]
    /\ last' = Did("socketClosed", heap[t].id, Undefined, t,
                   onSocketClosed(heap[t]), NoResponse)
    /\ UNCHANGED << config, procVars, _targetIdToTargetDataMap, calls >>

\* Target number t emits 'socketClosed'.
SocketClosed(t) ==
    /\ t \in 1..Len(heap)
    /\ heap' = [heap EXCEPT ![t].closed = TRUE]
    /\ last' = Did("socketClosed", heap[t].id, Undefined, t,
                   onSocketClosed(heap[t]), NoResponse)
    /\ UNCHANGED << config, procVars, _targetMap, _targetIdToTargetDataMap, calls >>

\* The helper process: start, stop, forceRefresh and its 'error' event.
NextProc ==
    \/ Start
    \/ Stop
    \/ ForceRefresh
    \/ \E process \in 1..MaxProcs : ProcessError(process)

\* The whole Adapter, fronting a runtime that lists target a only.
Next ==
    \/ NextProc
    \/ GetTargets(Undefined)
    \/ \E i \in 1..MaxCalls, resp \in ResponsesWith(BodiesOfA) : Response(i, resp)
    \/ \E targetId \in {IdA, Ghost}, wsFrom \in Clients : ConnectTo(targetId, wsFrom)
    \/ \E targetId \in {IdA, Ghost}, message \in Messages : ForwardTo(targetId, message)
    \/ \E t \in 1..Len(heap) : SocketClosed(t)

\* Discovery alone, with every body and every metadata.
NextDiscovery ==
    \/ \E metadata \in Metadatas : GetTargets(metadata)
    \/ \E i \in 1..MaxCalls, resp \in ResponsesWith(Bodies) : Response(i, resp)

\* Discovery of target a by a caller that polls again before the last
\* poll is answered: one more call in flight than elsewhere.
NextRace ==
    \/ GetTargetsWithin(MaxCalls + 1, Undefined)
    \/ \E i \in 1..(MaxCalls + 1), resp \in ResponsesWith(BodiesOfA) :
          Response(i, resp)

\* Discovery and binding for a runtime that lists targets a and b.
NextBind ==
    \/ GetTargets(Undefined)
    \/ \E i \in 1..MaxCalls,
          resp \in ResponsesWith({<<DescA1>>, <<DescB>>, <<DescA1, DescB>>}) :
          Response(i, resp)
    \/ \E targetId \in TargetIds, wsFrom \in Clients : ConnectTo(targetId, wsFrom)
    \/ \E targetId \in TargetIds, message \in Messages : ForwardTo(targetId, message)
    \/ \E t \in 1..Len(heap) : SocketClosed(t)

\* The helper process and discovery of target a, for every adapter id.
NextIdentity ==
    \/ NextProc
    \/ GetTargets(Undefined)
    \/ \E i \in 1..MaxCalls, resp \in ResponsesWith(BodiesOfA) : Response(i, resp)

Spec == Init /\ [][Next]_vars
SpecIdentity == InitAny /\ [][NextIdentity]_vars
SpecBind == Init /\ [][NextBind]_vars
SpecRace == Init /\ [][NextRace]_vars
SpecDiscovery == Init /\ [][NextDiscovery]_vars

\* ------------------------------------------------------------------ claims

\* C1: at most one Target is ever created for a target id. Every Target
\* created is the one the binding table holds for its id; a connectTo for
\* an id with a record returns that one Target, and a connectTo for an id
\* with no record returns null and no Target exists for the id.
C1_AtMostOneSession ==
    /\ \A i, j \in 1..Len(heap) : heap[i].id = heap[j].id => i = j
    /\ \A i \in 1..Len(heap) :
         Has(_targetMap, heap[i].id) /\ Get(_targetMap, heap[i].id) = i
    /\ last.op = "connectTo" =>
         IF Has(_targetIdToTargetDataMap, last.id)
         THEN /\ last.ret \in 1..Len(heap)
              /\ heap[last.ret].id = last.id
              /\ Get(_targetMap, last.id) = last.ret
         ELSE /\ last.ret = 0
              /\ \A i \in 1..Len(heap) : heap[i].id # last.id

\* A connectTo returned a Target that had been created by an earlier call
\* and had since fired its closure notification.
C1_Witness ==
    /\ last.op = "connectTo"
    /\ last.ret # 0
    /\ last.id \in last.pre.bound
    /\ heap[last.ret].closed

\* C2: a forceRefresh on an Adapter configured with a path and arguments,
\* made while a process is tracked, leaves a newly spawned process tracked,
\* one no termination signal was sent to.
C2_ForceRefreshRestarts ==
    [][ ( /\ last'.op = "forceRefresh"
          /\ Truthy(_options.proxyExePath)
          /\ Truthy(_options.proxyExeArgs)
          /\ _proxyProc # 0 )
        => ( /\ spawned' = spawned + 1
             /\ _proxyProc' = spawned'
             /\ _proxyProc' \notin signalled' ) ]_vars

\* A process is live from its spawn until it is signalled or reports an error.
Live(p) == p \in 1..spawned /\ p \notin signalled /\ p \notin errored

\* C3: never two live processes; every process but the one spawned last has
\* been sent the termination signal (so each spawn came after the signal to
\* the process before it), and the tracked process is the one spawned last.
C3_OneLiveProcess ==
    /\ Cardinality({p \in 1..spawned : Live(p)}) <= 1
    /\ \A p \in 1..spawned : p # spawned => p \in signalled
    /\ _proxyProc \in {0, spawned}
    /\ _proxyProc = 0 => \A p \in 1..spawned : p \in signalled

\* A second process is tracked and unsignalled after the first reported an
\* error.
C3_Witness ==
    /\ spawned >= 2
    /\ _proxyProc = spawned
    /\ _proxyProc \notin signalled
    /\ 1 \in errored

\* The webSocketDebuggerUrl values the runtime lists.
RealUrls == {d.webSocketDebuggerUrl : d \in {DescA1, DescA2, DescB, DescNoId}}

\* C4: a Target connectTo creates is seeded with the record stored for its
\* id at that moment, and its one runtime-side connection is opened to that
\* record's webSocketDebuggerUrl, which is a URL the runtime listed; no
\* Target is ever connected to the relay's rewritten URL for its id.
C4_ConnectsToRealEndpoint ==
    /\ [](\A i \in 1..Len(heap) :
            /\ heap[i].opened = 1
            /\ heap[i].url = heap[i].data.webSocketDebuggerUrl
            /\ heap[i].url \in RealUrls
            /\ heap[i].url # ProxiedUrl(heap[i].id))
    /\ [][ Len(heap') > Len(heap) =>
             LET t == heap'[Len(heap')]
                 record == Get(_targetIdToTargetDataMap, t.id)
             IN  /\ last'.op = "connectTo"
                 /\ t.id = last'.id
                 /\ t.data = record
                 /\ t.url = record.webSocketDebuggerUrl
                 /\ t.client = last'.arg ]_vars

\* A Target was created for an id whose record had been stored by a second
\* discovery, at the second endpoint.
C4_Witness ==
    /\ last.op = "connectTo"
    /\ last.id \notin last.pre.bound
    /\ last.ret # 0
    /\ heap[last.ret].url = DescA2.webSocketDebuggerUrl
    /\ heap[last.ret].data.type = DescA2.type

\* C5: a connectTo for an id with no record returns null and changes
\* nothing: no Target is created, connected or rebound, and the binding
\* table, the record table, the process and the calls in flight stay.
C5_NotFoundNoSideEffect ==
    [][ ( /\ last'.op = "connectTo"
          /\ ~Has(_targetIdToTargetDataMap, last'.id) )
        => ( /\ last'.ret = 0
             /\ UNCHANGED << config, procVars, targetVars, calls >> ) ]_vars

\* A connectTo for the unlisted id returned null while another id had a
\* record and a Target.
C5_Witness ==
    /\ last.op = "connectTo"
    /\ last.id = Ghost
    /\ last.ret = 0
    /\ Has(_targetIdToTargetDataMap, IdA)
    /\ Len(heap) = 1

\* C6: a connectTo for an id that has a Target returns that Target with its
\* client replaced by the new connection and nothing else changed (no
\* Target created, no runtime-side connection opened); and a Target's
\* client changes only in a connectTo for its id, to that call's client.
C6_RebindReplacesClient ==
    /\ [][ ( /\ last'.op = "connectTo"
             /\ Has(_targetMap, last'.id) )
           => LET target == Get(_targetMap, last'.id)
              IN  /\ last'.ret = target
                  /\ heap' = [heap EXCEPT ![target].client = last'.arg,
                                          ![target].rebound = TRUE]
                  /\ _targetMap' = _targetMap ]_vars
    /\ [][ \A i \in 1..Len(heap) :
             heap'[i].client # heap[i].client =>
               /\ last'.op = "connectTo"
               /\ last'.id = heap[i].id
               /\ heap'[i].client = last'.arg ]_vars
    /\ [](\A i \in 1..Len(heap) : heap[i].opened = 1 /\ heap[i].client \in Clients)

\* An existing Target was rebound to the second client.
C6_Witness ==
    /\ last.op = "connectTo"
    /\ last.id \in last.pre.bound
    /\ last.arg = <<"c", "2">>
    /\ heap[last.ret].client = <<"c", "2">>
    /\ heap[last.ret].opened = 1

\* The last operation was the request callback of a getTargets call.
Responded == last.op \in {"resolved", "threw"}

\* C7: when the request fails with a transport error, the promise resolves
\* to the empty sequence in that callback and the record table is unchanged.
C7_TransportErrorResolvesEmpty ==
    [][ (Responded' /\ last'.resp.error)
        => ( /\ last'.op = "resolved"
             /\ last'.out = <<>>
             /\ Len(calls') = Len(calls) - 1
             /\ UNCHANGED _targetIdToTargetDataMap ) ]_vars

\* A call failed with a transport error while a record was stored.
C7_Witness ==
    /\ last.op = "resolved"
    /\ last.resp.error
    /\ Has(_targetIdToTargetDataMap, IdA)

\* C8: a response with a non-2xx status resolves to the empty sequence,
\* whatever its body.
C8_Non2xxResolvesEmpty ==
    ( /\ Responded
      /\ ~last.resp.error
      /\ last.resp.statusCode \notin 200..299 )
    => (last.op = "resolved" /\ last.out = <<>>)

\* The id setTargetInfo gives raw descriptor t.
ValidId(t) == OrElse(t.id, t.appId)

\* C9: after a successful discovery, for every raw descriptor with a valid
\* id (the last one listed for its id), the record stored under the id
\* equals the descriptor as it was before its URLs were overwritten, and
\* the descriptor returned has the relay's URL for the id.
C9_RewriteRoundTrip ==
    (last.op = "resolved" /\ last.resp.json) =>
      \A k \in 1..Len(last.resp.body) :
        LET t == last.resp.body[k]
            id == ValidId(t)
            expected == [ t EXCEPT !.id = id,
                                   !.adapterType = _adapterType,
                                   !.type = IF Truthy(t.type) THEN t.type
                                            ELSE <<"p", "a", "g", "e">>,
                                   !.metadata = last.arg ]
        IN  Truthy(id) =>
              /\ last.out[k].webSocketDebuggerUrl = ProxyUrl \o _id \o <<"/">> \o id
              /\ (\A j \in (k + 1)..Len(last.resp.body) :
                     ValidId(last.resp.body[j]) # id)
                   => Get(_targetIdToTargetDataMap, id) = expected

\* C10: when the tracked process reports an error, the tracked handle is
\* cleared, the process gets the termination signal stop() sends, and no
\* process is spawned; a process is spawned only in a call of start or
\* forceRefresh.
C10_ErrorIsStop ==
    /\ [][ ( /\ last'.op = "processError"
             /\ _proxyProc # 0
             /\ last'.ret = _proxyProc )
           => ( /\ _proxyProc' = 0
                /\ spawned' = spawned
                /\ signalled' = signalled \cup {_proxyProc}
                /\ UNCHANGED << config, targetVars, calls >> ) ]_vars
    /\ [][ spawned' # spawned => last'.op \in {"start", "forceRefresh"} ]_vars

\* The tracked process reported an error and nothing is tracked.
C10_Witness ==
    /\ last.op = "processError"
    /\ last.pre.proxyProc # 0
    /\ last.ret = last.pre.proxyProc
    /\ _proxyProc = 0

\* C11: stop() with no process tracked changes nothing and sends no
\* signal; a stop() sends one signal, to the process that was tracked, and
\* leaves nothing tracked, so that a second stop() right after it changes
\* nothing and sends no signal.
C11_StopIdempotent ==
    /\ [][ (last'.op = "stop" /\ _proxyProc = 0)
           => ( /\ last'.out = <<>>
                /\ UNCHANGED << config, procVars, targetVars, calls >> ) ]_vars
    /\ [][ (last.op = "stop" /\ last'.op = "stop")
           => ( /\ last'.out = <<>>
                /\ UNCHANGED << config, procVars, targetVars, calls >> ) ]_vars
    /\ [](last.op = "stop" =>
            /\ _proxyProc = 0
            /\ last.out = IF last.pre.proxyProc = 0 THEN <<>>
                          ELSE << last.pre.proxyProc >>)

\* A stop() found nothing tracked, an earlier stop() having signalled the
\* only process spawned.
C11_Witness ==
    /\ last.op = "stop"
    /\ last.pre.proxyProc = 0
    /\ last.out = <<>>
    /\ spawned = 1
    /\ signalled = {1}
    /\ errored = {}

\* C12: start() spawns a process exactly when a path is configured and no
\* process is tracked; with a process tracked it spawns nothing and the
\* handle stays; with no path it changes nothing. It never signals.
C12_StartSpawnsOnlyWhenIdle ==
    [][ last'.op = "start" =>
          /\ IF Truthy(_options.proxyExePath) /\ _proxyProc = 0
             THEN spawned' = spawned + 1 /\ _proxyProc' = spawned'
             ELSE spawned' = spawned /\ _proxyProc' = _proxyProc
          /\ last'.out = <<>>
          /\ UNCHANGED << signalled, errored, config, targetVars, calls >> ]_vars

\* A start() found a process tracked and left it tracked.
C12_Witness ==
    /\ last.op = "start"
    /\ last.pre.proxyProc # 0
    /\ _proxyProc = last.pre.proxyProc
    /\ spawned = 1

\* C13: forwardTo changes nothing in the Adapter; for an id with no Target
\* it calls forward() on no Target, and for an id with a Target it calls
\* forward() once, on that id's Target, with the message it was given.
C13_ForwardToBoundOnly ==
    [][ last'.op = "forwardTo" =>
          /\ UNCHANGED << config, procVars, targetVars, calls >>
          /\ IF Has(_targetMap, last'.id)
             THEN /\ Len(last'.out) = 1
                  /\ last'.out[1].target = Get(_targetMap, last'.id)
                  /\ heap[last'.out[1].target].id = last'.id
                  /\ last'.out[1].message = last'.arg
             ELSE last'.out = <<>> ]_vars

\* With Targets bound to a and to b, a message for b went to b's Target,
\* which is not the first Target created.
C13_Witness ==
    /\ last.op = "forwardTo"
    /\ last.id = IdB
    /\ Len(heap) = 2
    /\ Len(last.out) = 1
    /\ last.out[1].target = 2
    /\ heap[2].id = IdB
    /\ last.out[1].message = <<"m", "2">>

\* C14: stop() leaves the binding table, the record table, every Target
\* and the calls in flight as they are; and whatever the state of the
\* process, a response that parses resolves its call with one descriptor
\* for each listed and stores the record of every id listed.
C14_StopOnlyStopsProcess ==
    /\ [][ last'.op = "stop" => UNCHANGED << config, targetVars, calls >> ]_vars
    /\ [][ (Responded' /\ ~last'.resp.error /\ last'.resp.json)
           => LET body == last'.resp.body
              IN  /\ last'.op = "resolved"
                  /\ Len(calls') = Len(calls) - 1
                  /\ Len(last'.out) = Len(body)
                  /\ \A k \in 1..Len(body) :
                       /\ Has(_targetIdToTargetDataMap', ValidId(body[k]))
                       /\ (\A j \in (k + 1)..Len(body) :
                              ValidId(body[j]) # ValidId(body[k]))
                            => Get(_targetIdToTargetDataMap', ValidId(body[k]))
                                   .webSocketDebuggerUrl
                                 = body[k].webSocketDebuggerUrl ]_vars

\* stop() signalled the tracked process while a call was in flight and a
\* Target was open: the call is still in flight and the Target still open.
C14_Witness ==
    /\ last.op = "stop"
    /\ last.pre.proxyProc # 0
    /\ Len(calls) = 1
    /\ Len(heap) = 1
    /\ ~heap[1].closed
    /\ Has(_targetMap, IdA)

\* C15: the request callback never throws: every response resolves the
\* promise of its call.
C15_GetTargetsAlwaysResolves ==
    Responded => last.op = "resolved"

\* The type an id of the form "/segment" or "/segment/rest" stands for:
\* "_" and the characters after the leading "/" up to the next "/".
SegmentType(id) ==
    LET rest == Tail(id)
        slashes == {i \in 1..Len(rest) : rest[i] = "/"}
    IN  IF slashes = {} THEN <<"_">> \o rest
        ELSE <<"_">> \o SubSeq(rest, 1, (CHOOSE i \in slashes :
                                            \A j \in slashes : i <= j) - 1)

\* C16: adapterType is "_" and the first segment of the id ("/b/i" gives
\* "_b", "/h" gives "_h"), no step changes it, and every descriptor a
\* getTargets call resolves with carries it.
C16_AdapterTypeFromId ==
    /\ [](_adapterType = SegmentType(_id))
    /\ [](_id = <<"/", "b", "/", "i">> => _adapterType = <<"_", "b">>)
    /\ [](_id = <<"/", "h">> => _adapterType = <<"_", "h">>)
    /\ [][_adapterType' = _adapterType /\ _id' = _id]_vars
    /\ [](last.op = "resolved" =>
            \A k \in 1..Len(last.out) : last.out[k].adapterType = _adapterType)

\* An Adapter with id "/h" resolved a call with a descriptor of type "_h"
\* after its helper process was started.
C16_Witness ==
    /\ _id = <<"/", "h">>
    /\ last.op = "resolved"
    /\ Len(last.out) = 1
    /\ last.out[1].adapterType = <<"_", "h">>
    /\ spawned > 0

\* C17: a response never replaces the record of an id that a call issued
\* later has already stored by a different descriptor.
C17_LateResponseKeepsFresher ==
    [][ last'.op = "resolved" =>
          \A id \in last'.stale :
             Get(_targetIdToTargetDataMap', id) = Get(_targetIdToTargetDataMap, id)
      ]_vars

\* C18: an 'error' of a process that is not the tracked one sends no
\* signal and leaves the tracked handle as it is.
C18_StaleErrorIgnored ==
    [][ ( /\ last'.op = "processError"
          /\ _proxyProc # 0
          /\ last'.ret # _proxyProc )
        => (_proxyProc' = _proxyProc /\ last'.out = <<>>) ]_vars

\* C19: no step removes or replaces an entry of the binding table; the
\* table changes only by the entry a connectTo adds for an id that has a
\* record and no entry; a connectTo for an id whose Target has closed
\* returns that Target; and every id in the table has a record.
C19_BindingTableOnlyGrows ==
    /\ [][ \A id \in DOMAIN _targetMap :
             /\ id \in DOMAIN _targetMap'
             /\ _targetMap'[id] = _targetMap[id] ]_vars
    /\ [][ _targetMap' # _targetMap =>
             /\ last'.op = "connectTo"
             /\ ~Has(_targetMap, last'.id)
             /\ Has(_targetIdToTargetDataMap, last'.id)
             /\ DOMAIN _targetMap' = (DOMAIN _targetMap) \cup {last'.id}
             /\ last'.ret = Get(_targetMap', last'.id) ]_vars
    /\ [][ ( /\ last'.op = "connectTo"
             /\ Has(_targetMap, last'.id)
             /\ heap[Get(_targetMap, last'.id)].closed )
           => last'.ret = Get(_targetMap, last'.id) ]_vars
    /\ [](DOMAIN _targetMap \subseteq DOMAIN _targetIdToTargetDataMap)

\* After the helper process was stopped and the Target of a closed, a
\* connectTo for a returned that Target.
C19_Witness ==
    /\ last.op = "connectTo"
    /\ last.id = IdA
    /\ IdA \in last.pre.bound
    /\ last.ret = Get(_targetMap, IdA)
    /\ heap[last.ret].closed
    /\ signalled # {}

\* C20: every 'socketClosed' of a Target is passed on as exactly one
\* 'socketClosed' of the Adapter, with that Target's id; every Target has
\* one listener, and no step adds one to an existing Target.
C20_ClosureForwardedOnce ==
    /\ [][ last'.op = "socketClosed" =>
             /\ last'.ret \in 1..Len(heap)
             /\ last'.out = << heap[last'.ret].id >> ]_vars
    /\ [][ \A i \in 1..Len(heap) : heap'[i].listeners = heap[i].listeners ]_vars
    /\ [](\A i \in 1..Len(heap) : heap[i].listeners = 1)

\* The Target of b closed after a second connectTo had reused it.
C20_Witness ==
    /\ last.op = "socketClosed"
    /\ heap[last.ret].rebound
    /\ heap[last.ret].id = IdB
    /\ last.out = << IdB >>

====
